---- MODULE Spec2Model ----
(***************************************************************************)
(* Model of the R-tree of src/src/lib.rs (RTree, Parent, Node, Rect and    *)
(* the traversal iterators).                                               *)
(*                                                                         *)
(* Coordinates are small integers (exactly representable f32 values), so   *)
(* the float arithmetic of the source is exact integer arithmetic here.    *)
(* A node is a record: an Item [kind, rect, item] or a Parent              *)
(* [kind, rect, nodes] where nodes is the child array in array order.      *)
(* The fan-out MAX_ITEMS is a bound of the model (the source sets it to    *)
(* 32); every formula below is stated in terms of MAX_ITEMS.               *)
(* sort_unstable_by_key leaves the order of equal keys unspecified: every  *)
(* sorted arrangement is a possible outcome, so the operations that sort   *)
(* return the set of their possible results.                               *)
(***************************************************************************)
EXTENDS Integers, Sequences, FiniteSets, Bags, TLC

\* ---------------------------------------------------------------- bounds
MAX_ITEMS == 4
MaxLen == 4
MaxDeep == 9

MIN_ITEMS == 2

\* ---------------------------------------------------------------- geometry
Point_new(x, y) == [x |-> x, y |-> y]

on(p, axis) == IF axis = "X" THEN p.x ELSE p.y

Rect_new(pmin, pmax) == [min |-> pmin, max |-> pmax]

point(x, y) == [min |-> Point_new(x, y), max |-> Point_new(x, y)]

min(a, b) == IF a < b THEN a ELSE b

max(a, b) == IF a > b THEN a ELSE b

expand(self, rect) ==
    [min |-> [x |-> IF rect.min.x < self.min.x THEN rect.min.x ELSE self.min.x,
              y |-> IF rect.min.y < self.min.y THEN rect.min.y ELSE self.min.y],
     max |-> [x |-> IF rect.max.x > self.max.x THEN rect.max.x ELSE self.max.x,
              y |-> IF rect.max.y > self.max.y THEN rect.max.y ELSE self.max.y]]

largest_axis(self) ==
    LET x == self.max.x - self.min.x
        y == self.max.y - self.min.y
    IN  IF y > x THEN "Y" ELSE "X"

intersects(self, rect) ==
    IF rect.min.x > self.max.x \/ rect.max.x < self.min.x THEN FALSE
    ELSE IF rect.min.y > self.max.y \/ rect.max.y < self.min.y THEN FALSE
    ELSE TRUE

\* on_edge with strict comparisons: touching a side does not count.
on_edge_strict(self, rect) ==
    IF rect.min.x < self.min.x \/ rect.max.x > self.max.x THEN TRUE
    ELSE IF rect.min.y < self.min.y \/ rect.max.y > self.max.y THEN TRUE
    ELSE FALSE

on_edge(self, rect) ==
    IF ~(rect.min.x > self.min.x) \/ ~(rect.max.x < self.max.x) THEN TRUE
    ELSE IF ~(rect.min.y > self.min.y) \/ ~(rect.max.y < self.max.y) THEN TRUE
    ELSE FALSE

area(self) == (self.max.x - self.min.x) * (self.max.y - self.min.y)

unioned_area(self, rect) ==
    (max(self.max.x, rect.max.x) - min(self.min.x, rect.min.x))
  * (max(self.max.y, rect.max.y) - min(self.min.y, rect.min.y))

box_dist(self, rect) ==
    LET x == max(self.min.x, rect.min.x) - min(self.max.x, rect.max.x)
        y == max(self.min.y, rect.min.y) - min(self.max.y, rect.max.y)
    IN  x * x + y * y

\* ---------------------------------------------------------------- nodes
None == [kind |-> "None"]

Some(v) == [kind |-> "Some", value |-> v]

Abort == [kind |-> "Abort"]

Item(rect, item) == [kind |-> "Item", rect |-> rect, item |-> item]

Parent_new(rect) == [kind |-> "Parent", rect |-> rect, nodes |-> <<>>]

\* is_full that answers only once the array is past its capacity.
is_full_late(self) == Len(self.nodes) > MAX_ITEMS

is_full(self) == Len(self.nodes) = MAX_ITEMS

Front(s) == SubSeq(s, 1, Len(s) - 1)

Last(s) == s[Len(s)]

\* ArrayVec::swap_remove: the last element takes the place of element i.
swap_remove(s, i) ==
    IF i = Len(s) THEN Front(s) ELSE [Front(s) EXCEPT ![i] = Last(s)]

\* The possible results of sort_unstable_by_key on a sequence of
\* [key, node] pairs: every arrangement in nondecreasing key order (Ordered
\* compares with < and >; equal keys may end in any order).
RECURSIVE sort_unstable_by_key(_)
sort_unstable_by_key(s) ==
    IF Len(s) = 0 THEN {<<>>}
    ELSE LET firsts == {i \in 1..Len(s) :
                           \A j \in 1..Len(s) : ~(s[j].key < s[i].key)}
             without(i) == [k \in 1..(Len(s) - 1) |->
                               IF k < i THEN s[k] ELSE s[k + 1]]
         IN  UNION {{<<s[i].node>> \o t : t \in sort_unstable_by_key(without(i))} :
                    i \in firsts}

RECURSIVE cle_loop(_, _, _, _, _, _)
cle_loop(nodes, rect, i, n, min_delta, min_area) ==
    IF i > Len(nodes) THEN n
    ELSE LET uarea == unioned_area(nodes[i].rect, rect)
             a == area(nodes[i].rect)
             delta == uarea - a
         IN  IF n = 0 \/ delta < min_delta
                \/ (delta = min_delta /\ a < min_area)
             THEN cle_loop(nodes, rect, i + 1, i, delta, a)
             ELSE cle_loop(nodes, rect, i + 1, n, min_delta, min_area)

\* Index of the chosen child; 0 stands for n = None ("empty parent").
choose_least_enlargement(nodes, rect) == cle_loop(nodes, rect, 1, 0, 0, 0)

RECURSIVE recalc_loop(_, _, _)
recalc_loop(nodes, i, rect) ==
    IF i > Len(nodes) THEN rect
    ELSE recalc_loop(nodes, i + 1, expand(rect, nodes[i].rect))

\* A recalc that leaves the rect as it was.
recalc_stale(self) == self

recalc(self) ==
    IF Len(self.nodes) = 0 THEN self
    ELSE [self EXCEPT !.rect = recalc_loop(self.nodes, 2, self.nodes[1].rect)]

sort_by_x(nodes) ==
    sort_unstable_by_key([i \in 1..Len(nodes) |->
        [key |-> nodes[i].rect.min.x, node |-> nodes[i]]])

\* ---------------------------------------------------------------- split
\* The partition loop: a child nearer the low edge stays, the others move.
RECURSIVE split_partition(_, _, _, _, _)
split_partition(l, r, i, rect, axis) ==
    IF ~(i <= Len(l)) THEN [l |-> l, r |-> r]
    ELSE LET dmin == on(l[i].rect.min, axis) - on(rect.min, axis)
             dmax == on(rect.max, axis) - on(l[i].rect.max, axis)
         IN  IF dmin < dmax
             THEN split_partition(l, r, i + 1, rect, axis)
             ELSE split_partition(swap_remove(l, i), Append(r, l[i]),
                                  i, rect, axis)

\* The refill loop stopping as soon as dst is not empty.
RECURSIVE split_refill_short(_, _)
split_refill_short(dst, src) ==
    IF ~(Len(dst) < MIN_ITEMS - 1) THEN [abort |-> FALSE, dst |-> dst, src |-> src]
    ELSE IF Len(src) = 0 \/ Len(dst) >= MAX_ITEMS
         THEN [abort |-> TRUE, dst |-> dst, src |-> src]
         ELSE split_refill_short(Append(dst, Last(src)), Front(src))

\* while dst.len() < MIN_ITEMS { dst.push(src.pop().unwrap()) }
RECURSIVE split_refill(_, _)
split_refill(dst, src) ==
    IF ~(Len(dst) < MIN_ITEMS) THEN [abort |-> FALSE, dst |-> dst, src |-> src]
    ELSE IF Len(src) = 0 \/ Len(dst) >= MAX_ITEMS
         THEN [abort |-> TRUE, dst |-> dst, src |-> src]
         ELSE split_refill(Append(dst, Last(src)), Front(src))

\* recalc both sides, then sort both by min.x
split_finish(self, l, r) ==
    LET left == recalc([self EXCEPT !.nodes = l])
        right == recalc([kind |-> "Parent", rect |-> self.rect, nodes |-> r])
    IN  {[kind |-> "Split",
          left |-> [left EXCEPT !.nodes = ls],
          right |-> [right EXCEPT !.nodes = rs]] :
            ls \in sort_by_x(l), rs \in sort_by_x(r)}

split_largest_axis_edge_snap(self) ==
    LET rect == self.rect
        axis == largest_axis(rect)
        p == split_partition(self.nodes, <<>>, 1, rect, axis)
    IN  IF Len(p.l) < MIN_ITEMS
        THEN UNION {LET m == split_refill(p.l, rs)
                    IN  IF m.abort THEN {Abort}
                        ELSE split_finish(self, m.dst, m.src) :
                      rs \in sort_unstable_by_key([i \in 1..Len(p.r) |->
                          [key |-> on(p.r[i].rect.min, axis), node |-> p.r[i]]])}
        ELSE IF Len(p.r) < MIN_ITEMS
        THEN UNION {LET m == split_refill(p.r, ls)
                    IN  IF m.abort THEN {Abort}
                        ELSE split_finish(self, m.src, m.dst) :
                      ls \in sort_unstable_by_key([i \in 1..Len(p.l) |->
                          [key |-> on(p.l[i].rect.max, axis), node |-> p.l[i]]])}
        ELSE split_finish(self, p.l, p.r)

\* ---------------------------------------------------------------- insert
\* ArrayVec::push panics on a full array.
push(nodes, child) ==
    IF Len(nodes) >= MAX_ITEMS THEN Abort
    ELSE [kind |-> "Nodes", nodes |-> Append(nodes, child)]

RECURSIVE Parent_insert(_, _, _, _)
Parent_insert(self, rect, item, h) ==
    IF h > 0
    THEN LET i == choose_least_enlargement(self.nodes, rect)
         IN  IF i = 0 THEN {Abort}
             ELSE IF self.nodes[i].kind # "Parent" THEN {self}
             ELSE UNION {
                 IF c.kind = "Abort" THEN {Abort}
                 ELSE IF is_full(c)
                 THEN {IF s.kind = "Abort" THEN Abort
                       ELSE LET pushed == push([self.nodes EXCEPT ![i] = s.left],
                                               s.right)
                            IN  IF pushed.kind = "Abort" THEN Abort
                                ELSE [self EXCEPT !.nodes = pushed.nodes,
                                                  !.rect = expand(@, rect)] :
                         s \in split_largest_axis_edge_snap(c)}
                 ELSE {[self EXCEPT !.nodes[i] = c, !.rect = expand(@, rect)]} :
                   c \in Parent_insert(self.nodes[i], rect, item, h - 1)}
    ELSE LET pushed == push(self.nodes, Item(rect, item))
         IN  IF pushed.kind = "Abort" THEN {Abort}
             ELSE {[self EXCEPT !.nodes = pushed.nodes,
                                !.rect = expand(@, rect)]}

Tree(r, l, h) == [kind |-> "Tree", root |-> r, length |-> l, height |-> h]

\* The insert that leaves a full root unsplit.
RTree_insert_no_root_split(t, rect, data) ==
    LET root0 == IF t.root.kind = "None" THEN Parent_new(rect) ELSE t.root
    IN  IF root0.kind # "Parent" THEN {Abort}
        ELSE {IF r.kind = "Abort" THEN Abort
              ELSE Tree(r, t.length + 1, t.height) :
                r \in Parent_insert(root0, rect, data, t.height)}

RTree_insert(t, rect, data) ==
    LET root0 == IF t.root.kind = "None" THEN Parent_new(rect) ELSE t.root
    IN  IF root0.kind # "Parent" THEN {Abort}
        ELSE UNION {
            IF r.kind = "Abort" THEN {Abort}
            ELSE IF is_full(r)
            THEN {IF s.kind = "Abort" THEN Abort
                  ELSE Tree([kind |-> "Parent", rect |-> r.rect,
                             nodes |-> <<s.left, s.right>>],
                            t.length + 1, t.height + 1) :
                    s \in split_largest_axis_edge_snap(r)}
            ELSE {Tree(r, t.length + 1, t.height)} :
              r \in Parent_insert(root0, rect, data, t.height)}

\* ---------------------------------------------------------------- remove
\* flatten_into that takes the entries of the node itself and drops the
\* Parents among its children.
RECURSIVE flatten_into_shallow(_, _)
flatten_into_shallow(self, reinsert) ==
    IF Len(self.nodes) = 0 THEN reinsert
    ELSE LET node == Last(self.nodes)
             rest == [self EXCEPT !.nodes = Front(@)]
         IN  IF node.kind = "Item"
             THEN flatten_into_shallow(rest, Append(reinsert, node))
             ELSE flatten_into_shallow(rest, reinsert)

RECURSIVE flatten_into(_, _)
flatten_into(self, reinsert) ==
    IF Len(self.nodes) = 0 THEN reinsert
    ELSE LET node == Last(self.nodes)
             rest == [self EXCEPT !.nodes = Front(@)]
         IN  IF node.kind = "Item"
             THEN flatten_into(rest, Append(reinsert, node))
             ELSE flatten_into(rest, flatten_into(node, reinsert))

RemoveResult(self, removed, recalced, reinsert) ==
    [abort |-> FALSE, self |-> self, removed |-> removed,
     recalced |-> recalced, reinsert |-> reinsert]

RemoveAbort(self) ==
    [abort |-> TRUE, self |-> self, removed |-> None,
     recalced |-> FALSE, reinsert |-> <<>>]

\* The leaf branch with the payload test inverted.
RECURSIVE remove_leaf_inverted(_, _, _, _)
remove_leaf_inverted(self, data, reinsert, i) ==
    IF i > Len(self.nodes) THEN RemoveResult(self, None, FALSE, reinsert)
    ELSE IF self.nodes[i].kind # "Item" THEN RemoveAbort(self)
    ELSE IF self.nodes[i].item = data
         THEN remove_leaf_inverted(self, data, reinsert, i + 1)
         ELSE LET item == self.nodes[i]
                  taken == [self EXCEPT !.nodes = swap_remove(@, i)]
                  recalced == on_edge(self.rect, item.rect)
              IN  RemoveResult(IF recalced THEN recalc(taken) ELSE taken,
                               item, recalced, reinsert)

\* The leaf branch of Parent::remove: the first child whose payload equals
\* data is swap-removed (the rect argument is not consulted here).
RECURSIVE remove_leaf(_, _, _, _)
remove_leaf(self, data, reinsert, i) ==
    IF i > Len(self.nodes) THEN RemoveResult(self, None, FALSE, reinsert)
    ELSE IF self.nodes[i].kind # "Item" THEN RemoveAbort(self)
    ELSE IF self.nodes[i].item # data
         THEN remove_leaf(self, data, reinsert, i + 1)
         ELSE LET item == self.nodes[i]
                  taken == [self EXCEPT !.nodes = swap_remove(@, i)]
                  recalced == on_edge(self.rect, item.rect)
              IN  RemoveResult(IF recalced THEN recalc(taken) ELSE taken,
                               item, recalced, reinsert)

RECURSIVE Parent_remove(_, _, _, _, _)

\* The branch loop giving up after the first child that meets the rect.
RECURSIVE remove_branch_first_only(_, _, _, _, _, _)
remove_branch_first_only(self, rect, data, reinsert, h, i) ==
    IF i > Len(self.nodes) THEN RemoveResult(self, None, FALSE, reinsert)
    ELSE IF self.nodes[i].kind # "Parent" THEN RemoveAbort(self)
    ELSE IF ~intersects(self.nodes[i].rect, rect)
         THEN remove_branch_first_only(self, rect, data, reinsert, h, i + 1)
         ELSE LET res == Parent_remove(self.nodes[i], rect, data, reinsert, h - 1)
                  here == [self EXCEPT !.nodes[i] = res.self]
              IN  IF res.abort THEN RemoveAbort(here)
                  ELSE IF res.removed.kind = "None"
                  THEN RemoveResult(here, None, FALSE, res.reinsert)
                  ELSE LET node == res.self
                           underflow == Len(node.nodes) < MIN_ITEMS
                           after == IF underflow
                                    THEN [here EXCEPT !.nodes = swap_remove(@, i)]
                                    ELSE here
                           list == IF underflow
                                   THEN flatten_into(node, res.reinsert)
                                   ELSE res.reinsert
                           recalced == IF underflow /\ ~res.recalced
                                       THEN on_edge(self.rect, node.rect)
                                       ELSE res.recalced
                       IN  RemoveResult(IF recalced THEN recalc(after) ELSE after,
                                        res.removed, recalced, list)

\* The branch loop of Parent::remove: the children that meet the rect are
\* tried in array order until one gives up an entry.
RECURSIVE remove_branch(_, _, _, _, _, _)
remove_branch(self, rect, data, reinsert, h, i) ==
    IF i > Len(self.nodes) THEN RemoveResult(self, None, FALSE, reinsert)
    ELSE IF self.nodes[i].kind # "Parent" THEN RemoveAbort(self)
    ELSE IF ~intersects(self.nodes[i].rect, rect)
         THEN remove_branch(self, rect, data, reinsert, h, i + 1)
         ELSE LET res == Parent_remove(self.nodes[i], rect, data, reinsert, h - 1)
                  here == [self EXCEPT !.nodes[i] = res.self]
              IN  IF res.abort THEN RemoveAbort(here)
                  ELSE IF res.removed.kind = "None"
                  THEN remove_branch(here, rect, data, res.reinsert, h, i + 1)
                  ELSE LET node == res.self
                           underflow == Len(node.nodes) < MIN_ITEMS
                           after == IF underflow
                                    THEN [here EXCEPT !.nodes = swap_remove(@, i)]
                                    ELSE here
                           list == IF underflow
                                   THEN flatten_into(node, res.reinsert)
                                   ELSE res.reinsert
                           recalced == IF underflow /\ ~res.recalced
                                       THEN on_edge(self.rect, node.rect)
                                       ELSE res.recalced
                       IN  RemoveResult(IF recalced THEN recalc(after) ELSE after,
                                        res.removed, recalced, list)

Parent_remove(self, rect, data, reinsert, h) ==
    IF h = 0 THEN remove_leaf(self, data, reinsert, 1)
    ELSE remove_branch(self, rect, data, reinsert, h, 1)

\* while let Some(item) = reinsert.pop() { self.insert(item.rect, item.item) }
RECURSIVE reinsert_all(_, _)
reinsert_all(t, reinsert) ==
    IF t.kind = "Abort" THEN {Abort}
    ELSE IF Len(reinsert) = 0 THEN {t}
    ELSE UNION {reinsert_all(u, Front(reinsert)) :
                  u \in RTree_insert(t, Last(reinsert).rect, Last(reinsert).item)}

Removed(t, removed, reinserted) ==
    [kind |-> "Removed", tree |-> t, removed |-> removed,
     reinserted |-> reinserted]

\* The length lowered by one only, whatever is on the reinsert list.
length_after_remove_one(len, reinsert) == len - 1

\* self.length -= reinsert.len() + 1
length_after_remove(len, reinsert) == len - (Len(reinsert) + 1)

\* The root collapse with the height left as it was.
root_after_remove_same_height(root, len, h, recalced) ==
    IF len = 0 THEN Tree(None, len, h)
    ELSE IF h > 0 /\ Len(root.nodes) = 1
    THEN IF Last(root.nodes).kind # "Parent" THEN Abort
         ELSE Tree(recalc(Last(root.nodes)), len, h)
    ELSE IF recalced THEN Tree(recalc(root), len, h)
    ELSE Tree(root, len, h)

\* The root after a remove that keeps the emptied root Parent.
root_after_remove_keep_root(root, len, h, recalced) ==
    IF h > 0 /\ Len(root.nodes) = 1
    THEN IF Last(root.nodes).kind # "Parent" THEN Abort
         ELSE Tree(recalc(Last(root.nodes)), len, h - 1)
    ELSE IF recalced THEN Tree(recalc(root), len, h)
    ELSE Tree(root, len, h)

\* The root after a successful Parent::remove: dropped when the tree is
\* empty, replaced by its only child when it has one, else recalculated.
root_after_remove(root, len, h, recalced) ==
    IF len = 0 THEN Tree(None, len, h)
    ELSE IF h > 0 /\ Len(root.nodes) = 1
    THEN IF Last(root.nodes).kind # "Parent" THEN Abort
         ELSE Tree(recalc(Last(root.nodes)), len, h - 1)
    ELSE IF recalced THEN Tree(recalc(root), len, h)
    ELSE Tree(root, len, h)

RTree_remove(t, rect, data) ==
    IF t.root.kind = "None" THEN {Removed(t, None, 0)}
    ELSE IF t.root.kind # "Parent" THEN {Abort}
    ELSE LET res == Parent_remove(t.root, rect, data, <<>>, t.height)
             len == length_after_remove(t.length, res.reinsert)
         IN  IF res.abort THEN {Abort}
             ELSE IF res.removed.kind = "None"
             THEN {Removed(Tree(res.self, t.length, t.height), None, 0)}
             ELSE IF len < 0 THEN {Abort}
             ELSE {IF u.kind = "Abort" THEN Abort
                   ELSE Removed(u, res.removed, Len(res.reinsert)) :
                     u \in reinsert_all(root_after_remove(res.self, len, t.height,
                                                          res.recalced),
                                        res.reinsert)}

\* ---------------------------------------------------------------- iterators
IterItem(rect, data, dist) == [rect |-> rect, data |-> data, dist |-> dist]

\* A StackNode is the slice iterator of a child array: its remaining nodes.
new_stack(r) == IF r.kind = "None" THEN <<>> ELSE <<r.nodes>>

\* One call of ScanIterator::next: the iterator's stack afterwards and the
\* item it returns (None at the end).
RECURSIVE scan_next(_)
scan_next(stack) ==
    IF Len(stack) = 0 THEN [stack |-> stack, out |-> None]
    ELSE LET top == Last(stack)
         IN  IF Len(top) = 0 THEN scan_next(Front(stack))
             ELSE LET node == Head(top)
                      adv == [stack EXCEPT ![Len(stack)] = Tail(top)]
                  IN  IF node.kind = "Item"
                      THEN [stack |-> adv,
                            out |-> Some(IterItem(node.rect, node.item, 0))]
                      ELSE scan_next(Append(adv, node.nodes))

\* SearchIterator::next with the rect test applied to Parents only.
RECURSIVE search_next_unfiltered(_, _)
search_next_unfiltered(stack, rect) ==
    IF Len(stack) = 0 THEN [stack |-> stack, out |-> None]
    ELSE LET top == Last(stack)
         IN  IF Len(top) = 0 THEN search_next_unfiltered(Front(stack), rect)
             ELSE LET node == Head(top)
                      adv == [stack EXCEPT ![Len(stack)] = Tail(top)]
                  IN  IF node.kind = "Item"
                      THEN [stack |-> adv,
                            out |-> Some(IterItem(node.rect, node.item, 0))]
                      ELSE IF ~intersects(node.rect, rect)
                      THEN search_next_unfiltered(adv, rect)
                      ELSE search_next_unfiltered(Append(adv, node.nodes), rect)

\* One call of SearchIterator::next.
RECURSIVE search_next(_, _)
search_next(stack, rect) ==
    IF Len(stack) = 0 THEN [stack |-> stack, out |-> None]
    ELSE LET top == Last(stack)
         IN  IF Len(top) = 0 THEN search_next(Front(stack), rect)
             ELSE LET node == Head(top)
                      adv == [stack EXCEPT ![Len(stack)] = Tail(top)]
                  IN  IF ~intersects(node.rect, rect)
                      THEN search_next(adv, rect)
                      ELSE IF node.kind = "Item"
                      THEN [stack |-> adv,
                            out |-> Some(IterItem(node.rect, node.item, 0))]
                      ELSE search_next(Append(adv, node.nodes), rect)

\* The items an iterator yields when it is called until it returns None.
RECURSIVE scan_collect(_, _)
scan_collect(stack, acc) ==
    LET n == scan_next(stack)
    IN  IF n.out.kind = "None" THEN acc
        ELSE scan_collect(n.stack, Append(acc, n.out.value))

RECURSIVE search_collect(_, _, _)
search_collect(stack, rect, acc) ==
    LET n == search_next(stack, rect)
    IN  IF n.out.kind = "None" THEN acc
        ELSE search_collect(n.stack, rect, Append(acc, n.out.value))

iter(r) == scan_collect(new_stack(r), <<>>)

search(r, rect) == search_collect(new_stack(r), rect, <<>>)

RTree_len(t) == t.length

RTree_rect(t) == IF t.root.kind = "None" THEN None ELSE Some(t.root.rect)

\* ---------------------------------------------------------------- nearby
NearbyItem(dist, node) == [dist |-> dist, node |-> node]

\* PartialOrd for NearbyItem: the comparison of the distances, reversed.
NearbyItem_partial_cmp(self, other) ==
    IF self.dist < other.dist THEN "Greater"
    ELSE IF self.dist > other.dist THEN "Less"
    ELSE "Equal"

\* Ord for NearbyItem: total_cmp of the distances, not reversed.
NearbyItem_cmp(self, other) ==
    IF self.dist < other.dist THEN "Less"
    ELSE IF self.dist > other.dist THEN "Greater"
    ELSE "Equal"

\* The queue comparing with Ord::cmp.
heap_le_by_cmp(a, b) == NearbyItem_cmp(a, b) \in {"Less", "Equal"}

\* a <= b as BinaryHeap evaluates it when it sifts: the operator <= of
\* PartialOrd, that is partial_cmp(a, b) is Less or Equal.
heap_le(a, b) == NearbyItem_partial_cmp(a, b) \in {"Less", "Equal"}

\* The items BinaryHeap::pop may return: the greatest ones of the queue (a
\* bag of NearbyItems). Which of several equal ones comes out is up to the
\* heap's layout, so each of them is a possible outcome.
heap_pop(queue) ==
    {x \in BagToSet(queue) : \A y \in BagToSet(queue) : heap_le(y, x)}

\* The caller's distance function f applied to a rect and an optional
\* payload. "box_dist" is |r, _| r.box_dist(&f.q); "payload" tells entries
\* from Parents and ranks entries by their payload first; "far" grows as the
\* rect nears the origin, so that a Parent may come after its entries.
call_dist(f, rect, item) ==
    CASE f.kind = "box_dist" -> box_dist(rect, f.q)
      [] f.kind = "payload" -> IF item.kind = "None" THEN rect.min.x
                               ELSE 10 * item.value + rect.max.y
      [] f.kind = "far" -> 0 - (rect.min.x + 2 * rect.max.y)

\* The extend that leaves out the last child.
RECURSIVE nearby_extend_but_last(_, _, _, _)
nearby_extend_but_last(queue, nodes, f, i) ==
    IF i >= Len(nodes) THEN queue
    ELSE LET node == nodes[i]
             dist == call_dist(f, node.rect,
                               IF node.kind = "Item" THEN Some(node.item)
                               ELSE None)
         IN  nearby_extend_but_last(queue (+) SetToBag({NearbyItem(dist, node)}),
                                    nodes, f, i + 1)

\* self.queue.extend(nodes.nodes.iter().map(...)), from child i on.
RECURSIVE nearby_extend(_, _, _, _)
nearby_extend(queue, nodes, f, i) ==
    IF i > Len(nodes) THEN queue
    ELSE LET node == nodes[i]
             dist == call_dist(f, node.rect,
                               IF node.kind = "Item" THEN Some(node.item)
                               ELSE None)
         IN  nearby_extend(queue (+) SetToBag({NearbyItem(dist, node)}),
                           nodes, f, i + 1)

NearbyIterator_new(r) ==
    IF r.kind = "None" THEN EmptyBag ELSE SetToBag({NearbyItem(0, r)})

\* The possible outcomes of one call of NearbyIterator::next: the queue
\* afterwards and the item returned (None at the end).
RECURSIVE nearby_next(_, _)
nearby_next(queue, f) ==
    IF BagToSet(queue) = {} THEN {[queue |-> queue, out |-> None]}
    ELSE UNION {
        LET rest == queue (-) SetToBag({x})
        IN  IF x.node.kind = "Item"
            THEN {[queue |-> rest,
                   out |-> Some(IterItem(x.node.rect, x.node.item, x.dist))]}
            ELSE nearby_next(nearby_extend(rest, x.node.nodes, f, 1), f) :
          x \in heap_pop(queue)}

\* The iterators that one more call of next() makes of the iterators `its`,
\* each a queue and the sequence `acc` of the items it has yielded so far;
\* `done` marks the ones whose call returned None.
nearby_step(its, f) ==
    UNION {{[queue |-> n.queue,
             acc   |-> IF n.out.kind = "None" THEN it.acc
                       ELSE Append(it.acc, n.out.value),
             done  |-> n.out.kind = "None"] : n \in nearby_next(it.queue, f)} :
           it \in its}

\* The possible sequences that iterators `its` have yielded when next()
\* returns None.
RECURSIVE nearby_collect(_, _)
nearby_collect(its, f) ==
    LET step == nearby_step(its, f)
        more == {[queue |-> it.queue, acc |-> it.acc] : it \in {t \in step : ~t.done}}
    IN  {it.acc : it \in {t \in step : t.done}}
          \cup (IF more = {} THEN {} ELSE nearby_collect(more, f))

nearby(r, f) ==
    nearby_collect({[queue |-> NearbyIterator_new(r), acc |-> <<>>]}, f)

\* ---------------------------------------------------------------- inputs
\* The rects offered to insert and remove: a point, a box and a point above
\* the far end of the diagonal, so that bounding rects come out both wider
\* than tall (split on X) and taller than wide (split on Y), and the box can
\* lie strictly inside a bounding rect.
Rects == {point(0, 0),
          Rect_new(Point_new(1, 1), Point_new(2, 2)),
          point(3, 4)}

\* The payloads: the code only tests them for equality with the argument.
Items == {1, 2}

\* Every rect and payload is offered while the tree holds fewer than MaxLen
\* entries. A tree that holds only payload 1 may grow on, with payload 1, up
\* to MaxDeep entries: that is how the deeper trees are reached.
Plain(rect, data) == data = 1

\* ---------------------------------------------------------------- state
VARIABLES root, length, height, aborted, op, arg, ret, reinserted, before

vars == <<root, length, height, aborted, op, arg, ret, reinserted, before>>

RECURSIVE entries(_)
entries(node) ==
    IF node.kind = "None" THEN EmptyBag
    ELSE IF node.kind = "Item" THEN SetToBag({[rect |-> node.rect, item |-> node.item]})
    ELSE IF Len(node.nodes) = 0 THEN EmptyBag
    ELSE entries(node.nodes[1]) (+) entries([node EXCEPT !.nodes = Tail(@)])

this == Tree(root, length, height)

Init ==
    /\ root = None
    /\ length = 0
    /\ height = 0
    /\ aborted = FALSE
    /\ op = "new"
    /\ arg = None
    /\ ret = None
    /\ reinserted = 0
    /\ before = EmptyBag

Insert(rect, data) ==
    /\ ~aborted
    /\ \/ length < MaxLen
       \/ /\ length < MaxDeep
          /\ Plain(rect, data)
          /\ \A e \in BagToSet(entries(root)) : Plain(e.rect, e.item)
    /\ \E t \in RTree_insert(this, rect, data) :
          /\ op' = "insert"
          /\ arg' = [rect |-> rect, item |-> data]
          /\ ret' = None
          /\ reinserted' = 0
          /\ before' = entries(root)
          /\ IF t.kind = "Abort"
             THEN aborted' = TRUE /\ UNCHANGED <<root, length, height>>
             ELSE /\ root' = t.root
                  /\ length' = t.length
                  /\ height' = t.height
                  /\ UNCHANGED aborted

Remove(rect, data) ==
    /\ ~aborted
    /\ \E r \in RTree_remove(this, rect, data) :
          /\ op' = "remove"
          /\ arg' = [rect |-> rect, item |-> data]
          /\ before' = entries(root)
          /\ IF r.kind = "Abort"
             THEN /\ aborted' = TRUE
                  /\ ret' = None
                  /\ reinserted' = 0
                  /\ UNCHANGED <<root, length, height>>
             ELSE /\ root' = r.tree.root
                  /\ length' = r.tree.length
                  /\ height' = r.tree.height
                  /\ ret' = r.removed
                  /\ reinserted' = r.reinserted
                  /\ UNCHANGED aborted

Next ==
    \/ \E rect \in Rects, data \in Items : Insert(rect, data)
    \/ \E rect \in Rects, data \in Items : Remove(rect, data)

Spec == Init /\ [][Next]_vars

\* The trees on which the nearby iterator is run: nearby() only reads the
\* tree, and the queue's choice among equal items makes every tree cost many
\* runs, so remove() is applied to trees of up to MaxLen entries only.
NearbyRemove(rect, data) == length <= MaxLen /\ Remove(rect, data)

NearbyNext ==
    \/ \E rect \in Rects, data \in Items : Insert(rect, data)
    \/ \E rect \in Rects, data \in Items : NearbyRemove(rect, data)

NearbySpec == Init /\ [][NearbyNext]_vars

\* ---------------------------------------------------------------- helpers of the properties
\* The Parent nodes strictly below a node.
RECURSIVE parents_below(_)
parents_below(node) ==
    IF node.kind # "Parent" THEN {}
    ELSE UNION {IF node.nodes[i].kind = "Parent"
                THEN {node.nodes[i]} \cup parents_below(node.nodes[i])
                ELSE {} : i \in 1..Len(node.nodes)}

all_parents(r) == IF r.kind = "Parent" THEN {r} \cup parents_below(r) ELSE {}

\* The componentwise min/max union of the children's rects, computed from
\* the set of children rather than by expansion.
union_of_children(p) ==
    LET rs == {p.nodes[i].rect : i \in 1..Len(p.nodes)}
        lo(S) == CHOOSE m \in S : \A n \in S : m <= n
        hi(S) == CHOOSE m \in S : \A n \in S : m >= n
    IN  Rect_new(Point_new(lo({r.min.x : r \in rs}), lo({r.min.y : r \in rs})),
                 Point_new(hi({r.max.x : r \in rs}), hi({r.max.y : r \in rs})))

\* Every child of p is a Parent above level 0 and an Item at level 0.
RECURSIVE levelled(_, _)
levelled(p, h) ==
    \A i \in 1..Len(p.nodes) :
        IF h = 0 THEN p.nodes[i].kind = "Item"
        ELSE p.nodes[i].kind = "Parent" /\ levelled(p.nodes[i], h - 1)

seq_to_bag(s) ==
    LET image == {s[i] : i \in 1..Len(s)}
    IN  [e \in image |-> Cardinality({i \in 1..Len(s) : s[i] = e})]

\* The (rect, payload) multiset an iterator's output stands for.
yielded(s) == seq_to_bag([i \in 1..Len(s) |->
                             [rect |-> s[i].rect, item |-> s[i].data]])

stored == entries(root)

key == [rect |-> arg.rect, item |-> arg.item]

removed_one == op = "remove" /\ ~aborted /\ ret.kind = "Item"

\* The query rects of search: every rect spanned by two corners of the
\* input rects.
Corners == {r.min : r \in Rects} \cup {r.max : r \in Rects}

Queries == {r \in {Rect_new(a, b) : a \in Corners, b \in Corners} :
              r.min.x <= r.max.x /\ r.min.y <= r.max.y}

\* The componentwise min/max bounding rect of a non-empty bag of entries.
bounding(es) ==
    LET rs == {e.rect : e \in BagToSet(es)}
        least(S) == CHOOSE v \in S : \A w \in S : v <= w
        most(S) == CHOOSE v \in S : \A w \in S : v >= w
    IN  Rect_new(Point_new(least({r.min.x : r \in rs}), least({r.min.y : r \in rs})),
                 Point_new(most({r.max.x : r \in rs}), most({r.max.y : r \in rs})))

\* The fixed points q of the distance function |r, _| r.box_dist(&q).
QueryPoints == {point(c.x, c.y) : c \in Corners}

BoxDistFns == {[kind |-> "box_dist", q |-> q] : q \in QueryPoints}

\* The distance functions handed to nearby().
DistFns == {[kind |-> "box_dist", q |-> point(1, 1)],
            [kind |-> "payload"], [kind |-> "far"]}

\* ---------------------------------------------------------------- properties
\* C1: after every insert or remove, every Parent has children and its rect
\* is exactly the componentwise min/max union of its children's rects.
C1_TightRects ==
    \A p \in all_parents(root) :
        Len(p.nodes) > 0 /\ p.rect = union_of_children(p)

\* A remove above a leaf level after which the root's rect had to shrink.
C1_Witness ==
    /\ removed_one
    /\ height >= 1
    /\ \E e \in BagToSet(before) : ~intersects(root.rect, e.rect)

\* C2: in a non-empty tree the root is a Parent and every leaf entry sits
\* height + 1 edges below it: Parents at depth below height hold only
\* Parents, Parents at depth height hold only entries.
C2_UniformDepth ==
    root.kind # "None" => root.kind = "Parent" /\ levelled(root, height)

\* An insert that split the root of a tree of height 1.
C2_Witness == op = "insert" /\ ~aborted /\ height >= 2

\* C3: every non-root Parent has between MIN_ITEMS and MAX_ITEMS children.
C3_FanOut ==
    \A p \in parents_below(root) :
        MIN_ITEMS <= Len(p.nodes) /\ Len(p.nodes) <= MAX_ITEMS

\* A remove that dissolved an underflowing Parent and left a tree in which
\* some non-root Parent holds exactly MIN_ITEMS children.
C3_Witness ==
    /\ removed_one
    /\ reinserted > 0
    /\ \E p \in parents_below(root) : Len(p.nodes) = MIN_ITEMS

\* C4: len() equals the number of entries reachable from the root and the
\* number of entries a full scan yields; an insert raises it by one and a
\* successful remove lowers it by one.
C4_LenCounts ==
    ~aborted =>
        /\ length = BagCardinality(stored)
        /\ length = Len(iter(root))
        /\ op = "insert" => length = BagCardinality(before) + 1
        /\ op = "remove" =>
              length = BagCardinality(before) - (IF ret.kind = "Item" THEN 1 ELSE 0)

\* A remove that put entries on the reinsert list.
C4_Witness == removed_one /\ reinserted > 0 /\ length > 1

\* C5: search(rect) yields exactly the multiset of the stored entries whose
\* rect intersects the query (closed intervals).
C5_SearchExact ==
    \A q \in Queries :
        yielded(search(root, q)) =
            [e \in {x \in BagToSet(stored) :
                      /\ x.rect.min.x <= q.max.x /\ q.min.x <= x.rect.max.x
                      /\ x.rect.min.y <= q.max.y /\ q.min.y <= x.rect.max.y}
               |-> stored[e]]

\* A tree of height at least 1 and a query that one subtree does not meet
\* while an entry of another subtree only touches it.
C5_Witness ==
    /\ height >= 1
    /\ \E q \in Queries :
          /\ \E i \in 1..Len(root.nodes) : ~intersects(root.nodes[i].rect, q)
          /\ \E i \in 1..Len(search(root, q)) :
                LET r == search(root, q)[i].rect
                IN  r.min.x = q.max.x /\ r.min.y = q.max.y /\ q.min.x < q.max.x

\* C6: when the tree holds an entry with rect r and payload v, remove(r, &v)
\* returns an entry with payload v.
C6_RemoveFinds ==
    (op = "remove" /\ ~aborted /\ BagIn(key, before)) =>
        ret.kind = "Item" /\ ret.item = arg.item

\* Such a remove in a tree of height at least 1 (a remove grows the tree
\* only by reinserting, so the height was at least 1 before it too) where
\* the subtree tried first gave up another entry with the payload.
C6_Witness ==
    /\ removed_one
    /\ BagIn(key, before)
    /\ height >= 1
    /\ ret.rect # arg.rect

\* C7 (as claimed): remove(r2, &v) returns nothing and leaves len() as it was
\* when every stored entry with payload v has a rect other than r2.
C7_Claim ==
    (op = "remove" /\ ~aborted
       /\ \A e \in BagToSet(before) : e.item = arg.item => e.rect # arg.rect) =>
        ret.kind = "None" /\ length = BagCardinality(before)

\* C8: when no stored entry has the payload, remove returns nothing and
\* leaves length, height and the whole tree (child order and rects) as is.
C8_NoMatchFrame ==
    [][(op' = "remove" /\ ~aborted'
          /\ \A e \in BagToSet(entries(root)) : e.item # arg'.item) =>
         (ret'.kind = "None" /\ root' = root /\ length' = length
            /\ height' = height)]_vars

\* A remove of an absent payload that descended below the root of a tree of
\* height at least 1.
C8_Witness ==
    /\ op = "remove"
    /\ ~aborted
    /\ ret.kind = "None"
    /\ height >= 1
    /\ \A e \in BagToSet(stored) : e.item # arg.item
    /\ \E i \in 1..Len(root.nodes) : intersects(root.nodes[i].rect, arg.rect)

\* C9 (as claimed): insert(rect, v) followed at once by remove(rect, &v)
\* restores len() and the multiset that a scan yields.
C9_Claim ==
    [][(op = "insert" /\ ~aborted /\ op' = "remove" /\ ~aborted' /\ arg' = arg) =>
         (length' = BagCardinality(before) /\ yielded(iter(root')) = before)]_vars

\* C10: after a successful remove that dissolved a Parent, the scan yields
\* the multiset held before the call less the one returned entry.
C10_ReinsertKeepsAll ==
    (removed_one /\ reinserted > 0) =>
        yielded(iter(root)) (+) SetToBag({[rect |-> ret.rect, item |-> ret.item]})
            = before

\* A remove that dissolved a Parent whose children were Parents: more
\* entries were reinserted than one leaf can hold after losing one.
C10_Witness == removed_one /\ reinserted >= MAX_ITEMS - 1

\* C11: with d(r, _) = r.box_dist(q) for a fixed point rect q, nearby(d)
\* yields its entries in nondecreasing order of dist, whichever of several
\* equal queue items the queue gives up first.
C11_NearbyOrdered ==
    \A f \in BoxDistFns : \A run \in nearby(root, f) :
        \A i \in 1..Len(run) : \A j \in i..Len(run) : run[i].dist <= run[j].dist

\* A tree of height at least 1 whose entries come out at three different
\* distances, the nearest of them from the last child of the root.
C11_Witness ==
    /\ height >= 1
    /\ \E f \in BoxDistFns : \E run \in nearby(root, f) :
          /\ Cardinality({run[i].dist : i \in 1..Len(run)}) >= 3
          /\ \A e \in BagToSet(entries(root.nodes[1])) :
                box_dist(e.rect, f.q) > run[1].dist

\* C12: rect() returns nothing exactly when len() is 0, and otherwise the
\* componentwise min/max bounding rect of all the stored entries' rects.
C12_RectBounds ==
    LET r == RTree_rect(this)
    IN  /\ (r.kind = "None") <=> (RTree_len(this) = 0)
        /\ r.kind = "Some" => r.value = bounding(stored)

\* A remove from a tree of height at least 1 took an entry away, reinserted
\* others and left a smaller bounding rect than the tree had before.
C12_Witness ==
    /\ removed_one /\ reinserted > 0 /\ height >= 1
    /\ RTree_rect(this).kind = "Some"
    /\ RTree_rect(this).value # bounding(before)

\* C13: no sequence of inserts and removes on a tree that starts empty aborts:
\* no choose_least_enlargement on an empty Parent, no Entry taken for a Parent
\* or Parent for an Entry, no push to a full child array, no pop or unwrap on
\* an empty one, and length never below zero.
C13_NoAbort == ~aborted /\ length >= 0

\* A remove from a tree of height 1 dissolved a child, popped the last child
\* of the root to make it the new root, and reinserted the orphans.
C13_Witness ==
    /\ removed_one /\ reinserted >= 1 /\ height = 0
    /\ BagCardinality(before) >= MAX_ITEMS

\* C14: a remove that leaves the tree empty drops the root with height 0, and
\* the insert that follows gives a tree of height 0 whose root holds that
\* single entry directly, without aborting.
C14_EmptiedResets ==
    [][/\ (removed_one' /\ length' = 0) => (root'.kind = "None" /\ height' = 0)
       /\ (removed_one /\ length = 0 /\ op' = "insert") =>
             /\ ~aborted' /\ height' = 0 /\ length' = 1
             /\ root'.kind = "Parent"
             /\ root'.nodes = <<Item(arg'.rect, arg'.item)>>]_vars

\* A remove has just taken the last entry out of the tree.
C14_Witness ==
    removed_one /\ length = 0 /\ root.kind = "None" /\ BagCardinality(before) = 1

\* C15: a nearby() iterator consumed until it returns None has yielded every
\* stored entry exactly once, len() items in all, each with the dist the
\* distance function gives for the entry's rect and payload.
C15_NearbyComplete ==
    \A f \in DistFns : \A run \in nearby(root, f) :
        /\ Len(run) = RTree_len(this)
        /\ yielded(run) = stored
        /\ \A i \in 1..Len(run) :
              run[i].dist = call_dist(f, run[i].rect, Some(run[i].data))

\* A tree of height at least 1 that stores some entry twice, run to the end
\* with the payload-dependent distance: both payloads come out.
C15_Witness ==
    /\ height >= 1
    /\ \E e \in BagToSet(stored) : CopiesIn(e, stored) >= 2
    /\ \E run \in nearby(root, [kind |-> "payload"]) :
          /\ Len(run) >= MAX_ITEMS
          /\ {run[i].data : i \in 1..Len(run)} = Items

\* C16: after every insert or remove, no Parent, the root included, holds
\* MAX_ITEMS children: every child array has at most MAX_ITEMS - 1 nodes.
C16_BelowCapacity ==
    \A p \in all_parents(root) : Len(p.nodes) <= MAX_ITEMS - 1

\* An insert into a tree of height at least 1 has left the root and one of its
\* children with MAX_ITEMS - 1 children each.
C16_Witness ==
    /\ op = "insert" /\ ~aborted /\ height >= 1
    /\ Len(root.nodes) = MAX_ITEMS - 1
    /\ \E p \in parents_below(root) : Len(p.nodes) = MAX_ITEMS - 1

====
